---- MODULE Spec2Model ----
(***************************************************************************)
(* Conversation assignment ledger of the CRM backend.                      *)
(*                                                                         *)
(* The model follows ConversationAssignmentRepository (the ledger),        *)
(* the ConversationAssignment entity and the User entity's chat counter.   *)
(* Rows of the conversation_assignments table are kept in a sequence; the  *)
(* id of a row is its index.  Time is counted in whole minutes.            *)
(*                                                                         *)
(* Spec     : every repository method runs as one step (one caller).       *)
(* SpecTime : the same, under a running clock.                             *)
(* SpecConc : the methods that await twice or more (complete, transfer,    *)
(*            escalate) are split at their awaits and run by several       *)
(*            request handlers at once; an awaited call may also reject    *)
(*            and end its handler between two writes.                      *)
(***************************************************************************)
EXTENDS Integers, Sequences, FiniteSets, TLC

\* ------------------------------------------------------------------ bounds
MaxRows == 2
MaxRowsConc == 3
MaxTime == 2
MaxTimeout == 2
MaxResponses == 1
MaxRowsStats == 3
MaxResponsesConc == 2
NUsers == 2
NConversations == 2
NHandlers == 2
NTeams == 2
NInstances == 2
MaxChats == 2
MaxCount == 3

\* ------------------------------------------------------- program constants
\* a nullable column holding NULL (an unset Date, number or user id)
Null == -1

Users == 1..NUsers
Conversations == 1..NConversations
Handlers == 1..NHandlers
Timeouts == 0..MaxTimeout
Teams == 1..NTeams
Instances == 1..NInstances

\* enum AssignmentStatus
ACTIVE == "active"
COMPLETED == "completed"
TRANSFERRED == "transferred"
ESCALATED == "escalated"
ABANDONED == "abandoned"
AssignmentStatus == {ACTIVE, COMPLETED, TRANSFERRED, ESCALATED, ABANDONED}

\* enum AssignmentPriority
LOW == "low"
NORMAL == "normal"
HIGH == "high"
URGENT == "urgent"
AssignmentPriority == {LOW, NORMAL, HIGH, URGENT}

\* enum AssignmentType
AssignmentType == {"auto", "manual", "transfer", "escalation"}

VARIABLES
    rows,        \* table conversation_assignments: Seq of rows, id = index
    now,         \* the clock read by new Date(), in minutes
    chatCount,   \* User.currentChatCount of every agent
    pc,          \* SpecConc: the await each request handler stands at
    local,       \* SpecConc: the handler's arguments and the row it loaded
    users,       \* table users: the other columns of every agent
    teams,       \* table teams with team_members: every team's row
    picks        \* SpecRoundRobin: the agents selected so far, per team

vars == <<rows, now, chatCount, pc, local, users, teams, picks>>

\* ------------------------------------------------------------ the entity
\* The columns of ConversationAssignment with their defaults: what
\* repository.create() + save() store for a column the caller left out.
ColumnDefaults ==
    [ conversationId        |-> Null,
      whatsappInstanceId    |-> Null,
      userId                |-> Null,
      status                |-> ACTIVE,
      priority              |-> NORMAL,
      assignmentType        |-> "auto",
      transferredFrom       |-> Null,
      transferredTo         |-> Null,
      assignedAt            |-> Null,
      firstResponseAt       |-> Null,
      lastResponseAt        |-> Null,
      completedAt           |-> Null,
      responseCount         |-> 0,
      responseTimeMinutes   |-> Null,
      resolutionTimeMinutes |-> Null,
      customerRating        |-> Null,
      contactName           |-> Null,
      contactPhone          |-> Null,
      contactType           |-> Null,
      tags                  |-> Null,
      category              |-> Null,
      subcategory           |-> Null ]

\* { ...a, ...b }: the columns named in b overwrite those of a
Spread(a, b) == [f \in DOMAIN a |-> IF f \in DOMAIN b THEN b[f] ELSE a[f]]

\* ConversationAssignment.calculateResponseTime, on a loaded row
calculateResponseTime(a) ==
    IF a.firstResponseAt = Null \/ a.assignedAt = Null
    THEN 0
    ELSE a.firstResponseAt - a.assignedAt

\* ConversationAssignment.calculateResolutionTime, on a loaded row
calculateResolutionTime(a) ==
    IF a.completedAt = Null \/ a.assignedAt = Null
    THEN 0
    ELSE a.completedAt - a.assignedAt

\* ConversationAssignment.transfer: the row after the entity's own helper
\* ran on it at clock t (no reason passed)
assignment_transfer(a, toUserId, t) ==
    Spread(a, [status |-> TRANSFERRED, transferredTo |-> toUserId, completedAt |-> t])

\* ConversationAssignment.escalate: the row after the entity's own helper
\* ran on it (no reason passed)
assignment_escalate(a, toUserId) ==
    Spread(a, [status |-> ESCALATED, transferredTo |-> toUserId, priority |-> HIGH])

\* -------------------------------------------------------- User and Team
\* User.maxConcurrentChats: the column's default
DefaultMaxConcurrentChats == 5

\* The columns of User (without currentChatCount, kept in chatCount) with
\* their defaults.  whatsappInstances is permissions.whatsappInstances as a
\* set of instance ids; missing permissions or a missing list is the empty
\* set, which every reader of the list treats the same way.
UserDefaults ==
    [ role               |-> "agent",
      status             |-> "active",
      availability       |-> "offline",
      maxConcurrentChats |-> DefaultMaxConcurrentChats,
      whatsappInstances  |-> {},
      lastActivityAt     |-> Null ]

\* The columns of Team with their defaults; members is the array loaded
\* through the team_members join table, whatsappInstances a set of ids
\* (empty for a missing list).
TeamDefaults ==
    [ status            |-> "active",
      whatsappInstances |-> {},
      members           |-> <<>> ]

\* ----------------------------------------------------------- the ledger
\* repository.update(id, updateData): overwrite the named columns of row id
repositoryUpdate(rs, id, updateData) ==
    [rs EXCEPT ![id] = Spread(rs[id], updateData)]

\* ConversationAssignmentRepository.create: the row that is saved
createRow(assignmentData, t) ==
    Spread(Spread(ColumnDefaults, assignmentData), [assignedAt |-> t])

\* ConversationAssignmentRepository.findActiveByConversationId (all matches)
findActiveByConversationId(rs, conversationId) ==
    {i \in DOMAIN rs : rs[i].conversationId = conversationId /\ rs[i].status = ACTIVE}

\* what callers pass to create(): the data of a new conversation assignment
CreateInputs ==
    [conversationId : Conversations, userId : Users, priority : AssignmentPriority]

\* ConversationAssignmentRepository.create
create(assignmentData) ==
    /\ Len(rows) < MaxRows
    /\ rows' = Append(rows, createRow(assignmentData, now))
    /\ UNCHANGED <<now, chatCount, pc, local, users, teams, picks>>

\* ConversationAssignmentRepository.updateStatus: its updateData
updateStatusData(status, t) ==
    IF status = COMPLETED
    THEN [status |-> status, completedAt |-> t]
    ELSE [status |-> status]

\* ConversationAssignmentRepository.updateStatus
updateStatus(id, status) ==
    /\ id \in DOMAIN rows
    /\ rows' = repositoryUpdate(rows, id, updateStatusData(status, now))
    /\ UNCHANGED <<now, chatCount, pc, local, users, teams, picks>>

\* ConversationAssignmentRepository.update: the partial rows callers pass
UpdateInputs ==
    [status : AssignmentStatus]

\* ConversationAssignmentRepository.update
update(id, updateData) ==
    /\ id \in DOMAIN rows
    /\ rows' = repositoryUpdate(rows, id, updateData)
    /\ UNCHANGED <<now, chatCount, pc, local, users, teams, picks>>

\* no abandon() exists: a row is abandoned through updateStatus
abandon(id) == updateStatus(id, ABANDONED)

\* a faulty recordResponse: the first response is not stamped
recordResponseData_noFirstResponse(assignment, responseTime, t) ==
    IF responseTime # Null
    THEN [responseCount |-> assignment.responseCount + 1,
          lastResponseAt |-> t,
          responseTimeMinutes |-> responseTime]
    ELSE [responseCount |-> assignment.responseCount + 1,
          lastResponseAt |-> t]

\* ConversationAssignmentRepository.recordResponse: its updateData for the
\* loaded row; responseTime = Null stands for an omitted argument
recordResponseData(assignment, responseTime, t) ==
    LET base == [responseCount |-> assignment.responseCount + 1,
                 lastResponseAt |-> t]
        first == IF assignment.firstResponseAt = Null
                 THEN [firstResponseAt |-> t,
                       responseTimeMinutes |-> calculateResponseTime(assignment)]
                 ELSE <<>>
        avg == IF responseTime # Null
               THEN IF assignment.responseTimeMinutes \notin {Null, 0}
                    THEN [responseTimeMinutes |->
                            (assignment.responseTimeMinutes + responseTime) \div 2]
                    ELSE [responseTimeMinutes |-> responseTime]
               ELSE <<>>
    IN  [f \in {"responseCount", "lastResponseAt"} \cup DOMAIN first \cup DOMAIN avg |->
            IF f \in DOMAIN avg THEN avg[f]
            ELSE IF f \in DOMAIN first THEN first[f]
            ELSE base[f]]

\* the response-time samples callers pass (minutes); Null = none
ResponseTimes == {Null, 2}

\* ConversationAssignmentRepository.recordResponse
recordResponse(id, responseTime) ==
    /\ id \in DOMAIN rows
    /\ rows[id].responseCount < MaxResponses
    /\ rows' = repositoryUpdate(rows, id, recordResponseData(rows[id], responseTime, now))
    /\ UNCHANGED <<now, chatCount, pc, local, users, teams, picks>>

\* ConversationAssignmentRepository.complete: its updateData for the loaded
\* row; rating = Null stands for an omitted argument
completeData(assignment, rating, t) ==
    LET base == [status |-> COMPLETED,
                 completedAt |-> t,
                 resolutionTimeMinutes |-> calculateResolutionTime(assignment)]
    IN  IF rating # Null /\ rating # 0
        THEN [f \in DOMAIN base \cup {"customerRating"} |->
                 IF f = "customerRating" THEN rating ELSE base[f]]
        ELSE base

\* the customer ratings callers pass; Null = none
Ratings == {Null, 4}

\* ConversationAssignmentRepository.complete
complete(id, rating) ==
    /\ id \in DOMAIN rows
    /\ rows' = repositoryUpdate(rows, id, completeData(rows[id], rating, now))
    /\ UNCHANGED <<now, chatCount, pc, local, users, teams, picks>>

\* ConversationAssignmentRepository.transfer: the update closing the row
transferData(toUserId, t) ==
    [status |-> TRANSFERRED, transferredTo |-> toUserId, completedAt |-> t]

\* a faulty transfer: the new row is created without the contact snapshot,
\* the category and the tags
transferNewData_noSnapshot(assignment, toUserId) ==
    [conversationId  |-> assignment.conversationId,
     whatsappInstanceId |-> assignment.whatsappInstanceId,
     userId          |-> toUserId,
     priority        |-> assignment.priority,
     assignmentType  |-> "transfer",
     transferredFrom |-> assignment.userId]

\* a faulty transfer: the new row names the receiving agent as its origin
transferNewData_fromReceiver(assignment, toUserId) ==
    [conversationId  |-> assignment.conversationId,
     whatsappInstanceId |-> assignment.whatsappInstanceId,
     contactName     |-> assignment.contactName,
     contactPhone    |-> assignment.contactPhone,
     contactType     |-> assignment.contactType,
     category        |-> assignment.category,
     subcategory     |-> assignment.subcategory,
     tags            |-> assignment.tags,
     userId          |-> toUserId,
     priority        |-> assignment.priority,
     assignmentType  |-> "transfer",
     transferredFrom |-> toUserId]

\* ConversationAssignmentRepository.transfer: the data of the new row
transferNewData(assignment, toUserId) ==
    [conversationId  |-> assignment.conversationId,
     whatsappInstanceId |-> assignment.whatsappInstanceId,
     contactName     |-> assignment.contactName,
     contactPhone    |-> assignment.contactPhone,
     contactType     |-> assignment.contactType,
     category        |-> assignment.category,
     subcategory     |-> assignment.subcategory,
     tags            |-> assignment.tags,
     userId          |-> toUserId,
     priority        |-> assignment.priority,
     assignmentType  |-> "transfer",
     transferredFrom |-> assignment.userId]

\* ConversationAssignmentRepository.transfer
transfer(id, toUserId) ==
    /\ id \in DOMAIN rows
    /\ Len(rows) < MaxRows
    /\ rows' = Append(repositoryUpdate(rows, id, transferData(toUserId, now)),
                      createRow(transferNewData(rows[id], toUserId), now))
    /\ UNCHANGED <<now, chatCount, pc, local, users, teams, picks>>

\* ConversationAssignmentRepository.escalate: the update closing the row
escalateData(toUserId, t) ==
    [status |-> ESCALATED, transferredTo |-> toUserId, completedAt |-> t]

\* a faulty escalate: the new row keeps the predecessor's priority
escalateNewData_keepsPriority(assignment, toUserId) ==
    [conversationId  |-> assignment.conversationId,
     whatsappInstanceId |-> assignment.whatsappInstanceId,
     contactName     |-> assignment.contactName,
     contactPhone    |-> assignment.contactPhone,
     contactType     |-> assignment.contactType,
     category        |-> assignment.category,
     subcategory     |-> assignment.subcategory,
     tags            |-> assignment.tags,
     userId          |-> toUserId,
     priority        |-> assignment.priority,
     assignmentType  |-> "escalation",
     transferredFrom |-> assignment.userId]

\* ConversationAssignmentRepository.escalate: the data of the new row
escalateNewData(assignment, toUserId) ==
    [conversationId  |-> assignment.conversationId,
     whatsappInstanceId |-> assignment.whatsappInstanceId,
     contactName     |-> assignment.contactName,
     contactPhone    |-> assignment.contactPhone,
     contactType     |-> assignment.contactType,
     category        |-> assignment.category,
     subcategory     |-> assignment.subcategory,
     tags            |-> assignment.tags,
     userId          |-> toUserId,
     priority        |-> HIGH,
     assignmentType  |-> "escalation",
     transferredFrom |-> assignment.userId]

\* ConversationAssignmentRepository.escalate
escalate(id, toUserId) ==
    /\ id \in DOMAIN rows
    /\ Len(rows) < MaxRows
    /\ rows' = Append(repositoryUpdate(rows, id, escalateData(toUserId, now)),
                      createRow(escalateNewData(rows[id], toUserId), now))
    /\ UNCHANGED <<now, chatCount, pc, local, users, teams, picks>>

\* a faulty query: the clause on firstResponseAt is missing
isOverdue_ignoresResponse(a, t, timeoutMinutes) ==
    LET timeoutDate == t - timeoutMinutes
    IN  /\ a.status = ACTIVE
        /\ a.assignedAt < timeoutDate

\* ConversationAssignmentRepository.findOverdueAssignments: the WHERE clause
\* of the query, at clock t
isOverdue(a, t, timeoutMinutes) ==
    LET timeoutDate == t - timeoutMinutes
    IN  /\ a.status = ACTIVE
        /\ a.assignedAt < timeoutDate
        /\ a.firstResponseAt = Null

\* ConversationAssignmentRepository.findOverdueAssignments: the lists of row
\* ids the query may return at clock t.  ORDER BY assignedAt ASC leaves the
\* order of rows with equal assignedAt to the database, so every such order
\* is a possible result.
findOverdueAssignments(rs, t, timeoutMinutes) ==
    LET matching == {i \in DOMAIN rs : isOverdue(rs[i], t, timeoutMinutes)}
        n == Cardinality(matching)
    IN  {res \in [1..n -> matching] :
            /\ \A k, l \in 1..n : k # l => res[k] # res[l]
            /\ \A k, l \in 1..n : k < l => rs[res[k]].assignedAt <= rs[res[l]].assignedAt}

\* the clock advances by a minute
Tick ==
    /\ now < MaxTime
    /\ now' = now + 1
    /\ UNCHANGED <<rows, chatCount, pc, local, users, teams, picks>>

Init ==
    /\ rows = <<>>
    /\ now = 0
    /\ chatCount = [u \in Users |-> 0]
    /\ pc = [p \in Handlers |-> "idle"]
    /\ local = [p \in Handlers |-> <<>>]
    /\ users = [u \in Users |-> UserDefaults]
    /\ teams = [t \in Teams |-> TeamDefaults]
    /\ picks = [t \in Teams |-> <<>>]

\* ---------------------------------------------------------------- Spec
\* One caller: every repository method runs to its end before the next one
\* starts.  The clock stands still; SpecTime is the ledger under a running
\* clock.
Next ==
    \/ \E d \in CreateInputs : create(d)
    \/ \E id \in 1..MaxRows, s \in AssignmentStatus : updateStatus(id, s)
    \/ \E id \in 1..MaxRows, d \in UpdateInputs : update(id, d)
    \/ \E id \in 1..MaxRows : complete(id, Null)
    \/ \E id \in 1..MaxRows, u \in Users : transfer(id, u)
    \/ \E id \in 1..MaxRows, u \in Users : escalate(id, u)

Spec == Init /\ [][Next]_vars

\* ------------------------------------------------------------ SpecTime
\* The ledger under a running clock, for one agent's assignments.
CreateInputsTime ==
    [conversationId : Conversations, userId : {1}]

NextTime ==
    \/ \E d \in CreateInputsTime : create(d)
    \/ \E id \in 1..MaxRows, rt \in ResponseTimes : recordResponse(id, rt)
    \/ \E id \in 1..MaxRows, r \in Ratings : complete(id, r)
    \/ \E id \in 1..MaxRows : abandon(id)
    \/ Tick

SpecTime == Init /\ [][NextTime]_vars

\* ------------------------------------------------------------ SpecConc
\* Several request handlers at once.  complete, transfer and escalate load
\* the row (await findById), then write (await repository.update) and, for
\* transfer and escalate, write again (await this.create): other handlers
\* run between the awaits.  No transaction or lock spans the awaits.
CreateInputsConc ==
    [conversationId : Conversations, userId : {1}]

\* the agents the handlers transfer and escalate to
TargetsConc == Users \ {1}

\* rows that handlers past their findById will still insert
PendingCreates ==
    Cardinality({p \in Handlers : pc[p] \in {"transfer_update", "transfer_create",
                                              "escalate_update", "escalate_create"}})

\* create: one await (repository.save)
createConc(assignmentData) ==
    /\ Len(rows) + PendingCreates < MaxRowsConc
    /\ rows' = Append(rows, createRow(assignmentData, now))
    /\ UNCHANGED <<now, chatCount, pc, local, users, teams, picks>>

\* complete, up to its first await: const assignment = await this.findById(id)
complete_findById(p, id, rating) ==
    /\ pc[p] = "idle"
    /\ id \in DOMAIN rows
    /\ pc' = [pc EXCEPT ![p] = "complete_update"]
    /\ local' = [local EXCEPT ![p] = [id |-> id, arg |-> rating, assignment |-> rows[id]]]
    /\ UNCHANGED <<rows, now, chatCount, users, teams, picks>>

\* complete, its second await: await this.repository.update(id, updateData)
complete_update(p) ==
    /\ pc[p] = "complete_update"
    /\ rows' = repositoryUpdate(rows, local[p].id,
                                completeData(local[p].assignment, local[p].arg, now))
    /\ pc' = [pc EXCEPT ![p] = "idle"]
    /\ local' = [local EXCEPT ![p] = <<>>]
    /\ UNCHANGED <<now, chatCount, users, teams, picks>>

\* transfer, up to its first await: const assignment = await this.findById(id)
transfer_findById(p, id, toUserId) ==
    /\ pc[p] = "idle"
    /\ id \in DOMAIN rows
    /\ Len(rows) + PendingCreates < MaxRowsConc
    /\ pc' = [pc EXCEPT ![p] = "transfer_update"]
    /\ local' = [local EXCEPT ![p] = [id |-> id, arg |-> toUserId, assignment |-> rows[id]]]
    /\ UNCHANGED <<rows, now, chatCount, users, teams, picks>>

\* transfer, its second await: the update that closes the row
transfer_update(p) ==
    /\ pc[p] = "transfer_update"
    /\ rows' = repositoryUpdate(rows, local[p].id, transferData(local[p].arg, now))
    /\ pc' = [pc EXCEPT ![p] = "transfer_create"]
    /\ UNCHANGED <<now, chatCount, local, users, teams, picks>>

\* transfer, its third await: this.create of the new row
transfer_create(p) ==
    /\ pc[p] = "transfer_create"
    /\ rows' = Append(rows, createRow(transferNewData(local[p].assignment, local[p].arg), now))
    /\ pc' = [pc EXCEPT ![p] = "idle"]
    /\ local' = [local EXCEPT ![p] = <<>>]
    /\ UNCHANGED <<now, chatCount, users, teams, picks>>

\* escalate, up to its first await: const assignment = await this.findById(id)
escalate_findById(p, id, toUserId) ==
    /\ pc[p] = "idle"
    /\ id \in DOMAIN rows
    /\ Len(rows) + PendingCreates < MaxRowsConc
    /\ pc' = [pc EXCEPT ![p] = "escalate_update"]
    /\ local' = [local EXCEPT ![p] = [id |-> id, arg |-> toUserId, assignment |-> rows[id]]]
    /\ UNCHANGED <<rows, now, chatCount, users, teams, picks>>

\* escalate, its second await: the update that closes the row
escalate_update(p) ==
    /\ pc[p] = "escalate_update"
    /\ rows' = repositoryUpdate(rows, local[p].id, escalateData(local[p].arg, now))
    /\ pc' = [pc EXCEPT ![p] = "escalate_create"]
    /\ UNCHANGED <<now, chatCount, local, users, teams, picks>>

\* escalate, its third await: this.create of the new row
escalate_create(p) ==
    /\ pc[p] = "escalate_create"
    /\ rows' = Append(rows, createRow(escalateNewData(local[p].assignment, local[p].arg), now))
    /\ pc' = [pc EXCEPT ![p] = "idle"]
    /\ local' = [local EXCEPT ![p] = <<>>]
    /\ UNCHANGED <<now, chatCount, users, teams, picks>>

\* an awaited database call rejects (connection lost, server restart): the
\* exception ends the handler, and nothing undoes what it has written
reject(p) ==
    /\ pc[p] # "idle"
    /\ pc' = [pc EXCEPT ![p] = "idle"]
    /\ local' = [local EXCEPT ![p] = <<>>]
    /\ UNCHANGED <<rows, now, chatCount, users, teams, picks>>

NextConc ==
    \/ \E d \in CreateInputsConc : createConc(d)
    \/ \E p \in Handlers, id \in 1..MaxRowsConc : complete_findById(p, id, Null)
    \/ \E p \in Handlers : complete_update(p)
    \/ \E p \in Handlers, id \in 1..MaxRowsConc, u \in TargetsConc : transfer_findById(p, id, u)
    \/ \E p \in Handlers : transfer_update(p)
    \/ \E p \in Handlers : transfer_create(p)
    \/ \E p \in Handlers, id \in 1..MaxRowsConc, u \in TargetsConc : escalate_findById(p, id, u)
    \/ \E p \in Handlers : escalate_update(p)
    \/ \E p \in Handlers : escalate_create(p)
    \/ \E p \in Handlers : reject(p)

SpecConc == Init /\ [][NextConc]_vars

\* ---------------------------------------------------------- SpecAgents
\* The users table under UserRepository: rows of any role, status, chat
\* limit and instance list, whose availability and chat count are then
\* moved by updateAvailability and updateChatCount.

\* UserRole, UserStatus, UserAvailability
UserRole == {"admin", "supervisor", "agent", "viewer"}
UserStatus == {"active", "inactive", "suspended"}
UserAvailability == {"available", "busy", "away", "offline"}

\* User.isAvailable, on a user row and its currentChatCount
isAvailable(user, currentChatCount) ==
    /\ user.status = "active"
    /\ user.availability = "available"
    /\ currentChatCount < user.maxConcurrentChats

\* User.canAccessInstance
canAccessInstance(user, instanceId) ==
    IF user.role = "admin" THEN TRUE
    ELSE instanceId \in user.whatsappInstances

\* UserRepository.findAvailableAgents: the users the query returns
findAvailableAgents(us, cc) ==
    {u \in DOMAIN us :
        /\ us[u].status = "active"
        /\ us[u].availability = "available"
        /\ cc[u] < us[u].maxConcurrentChats}

\* UserRepository.findAvailableByInstance: the users the query returns.
\* JSON_CONTAINS(user.permissions, {"whatsappInstances": [instanceId]})
\* holds when permissions has the list and the list holds instanceId.
findAvailableByInstance(us, cc, instanceId) ==
    {u \in DOMAIN us :
        /\ us[u].status = "active"
        /\ us[u].availability = "available"
        /\ cc[u] < us[u].maxConcurrentChats
        /\ instanceId \in us[u].whatsappInstances}

\* the increments callers pass to updateChatCount
Increments == {-1, 1}

\* a faulty SET expression: the sum is clamped at 0
incrementedCount_clamped(currentChatCount, increment) ==
    IF currentChatCount + increment < 0 THEN 0 ELSE currentChatCount + increment

\* UserRepository.updateChatCount: the SET expression currentChatCount +
\* increment, evaluated by the database on the stored count
incrementedCount(currentChatCount, increment) == currentChatCount + increment

\* UserRepository.updateChatCount: currentChatCount + increment, written as
\* it comes; the guard keeps the counter within the model's range
updateChatCount(id, increment) ==
    /\ id \in Users
    /\ chatCount[id] + increment \in (0 - MaxCount)..MaxCount
    /\ chatCount' = [chatCount EXCEPT ![id] = incrementedCount(chatCount[id], increment)]
    /\ users' = [users EXCEPT ![id].lastActivityAt = now]
    /\ UNCHANGED <<rows, now, pc, local, teams, picks>>

\* UserRepository.updateAvailability
updateAvailability(id, availability) ==
    /\ id \in Users
    /\ users' = [users EXCEPT ![id].availability = availability,
                              ![id].lastActivityAt = now]
    /\ UNCHANGED <<rows, now, chatCount, pc, local, teams, picks>>

\* the user rows UserRepository.create is given in SpecAgents
UserInputs ==
    [ role               : {"admin", "agent"},
      status             : {"active", "inactive"},
      availability       : {"offline"},
      maxConcurrentChats : 1..MaxChats,
      whatsappInstances  : {{}, {1}},
      lastActivityAt     : {Null} ]

\* the availabilities callers pass to updateAvailability in SpecAgents
AvailabilityInputs == {"available", "busy"}

InitAgents ==
    /\ rows = <<>>
    /\ now = 0
    /\ chatCount = [u \in Users |-> 0]
    /\ pc = [p \in Handlers |-> "idle"]
    /\ local = [p \in Handlers |-> <<>>]
    /\ users \in [Users -> UserInputs]
    /\ teams = [t \in Teams |-> TeamDefaults]
    /\ picks = [t \in Teams |-> <<>>]

NextAgents ==
    \/ \E id \in Users, increment \in Increments : updateChatCount(id, increment)
    \/ \E id \in Users, a \in AvailabilityInputs : updateAvailability(id, a)

SpecAgents == InitAgents /\ [][NextAgents]_vars

\* ----------------------------------------------------------- SpecTeams
\* The teams table under TeamRepository: teams of any status and instance
\* list, whose member lists are edited by addMembers, removeMembers and
\* setMembers while the members' chat counts grow.

\* the elements of a list
Range(s) == {s[i] : i \in DOMAIN s}

\* a list without a repeated element
NoDuplicates(s) == \A i, j \in DOMAIN s : i # j => s[i] # s[j]

\* the orders in which the database may return the elements of a list read
\* without ORDER BY
Orders(s) ==
    {[i \in DOMAIN s |-> s[p[i]]] :
        p \in {q \in [DOMAIN s -> DOMAIN s] : \A i, j \in DOMAIN s : i # j => q[i] # q[j]}}

\* array.reduce((sum, x) => sum + x, 0)
RECURSIVE reduceSum(_)
reduceSum(s) == IF s = <<>> THEN 0 ELSE Head(s) + reduceSum(Tail(s))

\* findOne({ relations: ['members'] }): the member list as loaded
loadMembers(team) == Orders(team.members)

\* a faulty getAvailableMembers: every member counts as available
getAvailableMembers_all(us, cc, members) == members

\* Team.getAvailableMembers, on the loaded member list
getAvailableMembers(us, cc, members) ==
    SelectSeq(members, LAMBDA m : isAvailable(us[m], cc[m]))

\* Team.getNextAgentByMethod, case least_busy: the reduce over the
\* available members, least being the accumulator
RECURSIVE reduceLeastBusy(_, _, _)
reduceLeastBusy(cc, availableMembers, least) ==
    IF availableMembers = <<>> THEN least
    ELSE LET current == Head(availableMembers)
         IN  reduceLeastBusy(cc, Tail(availableMembers),
                             IF cc[current] < cc[least] THEN current ELSE least)

\* the method names of distributionSettings, and a name that is none of them
DistributionMethods == {"round_robin", "least_busy", "random", "manual", "other"}

\* a faulty getNextAgentByMethod: the first member, available or not
getNextAgentByMethod_firstMember(us, cc, members, method) ==
    IF Len(members) = 0 THEN {Null} ELSE {members[1]}

\* Team.getNextAgentByMethod on the loaded member list: the agents it may
\* return (Null for none); only Math.random leaves more than one
getNextAgentByMethod(us, cc, members, method) ==
    LET availableMembers == getAvailableMembers(us, cc, members)
    IN  IF Len(availableMembers) = 0 THEN {Null}
        ELSE CASE method = "least_busy" ->
                    {reduceLeastBusy(cc, Tail(availableMembers), Head(availableMembers))}
               [] method = "random" ->
                    {availableMembers[i] : i \in DOMAIN availableMembers}
               [] OTHER -> {availableMembers[1]}

\* TeamRepository.getTeamCapacity, on the team's member list
getTeamCapacity(us, cc, members) ==
    LET totalCapacity ==
            reduceSum([i \in DOMAIN members |-> us[members[i]].maxConcurrentChats])
        usedCapacity ==
            reduceSum([i \in DOMAIN members |-> cc[members[i]]])
        activeMemberCount ==
            Len(SelectSeq(members, LAMBDA m : /\ us[m].status = "active"
                                              /\ us[m].availability # "offline"))
    IN  [ totalCapacity     |-> totalCapacity,
          usedCapacity      |-> usedCapacity,
          availableCapacity |-> totalCapacity - usedCapacity,
          memberCount       |-> Len(members),
          activeMemberCount |-> activeMemberCount ]

\* TeamRepository.findTeamsWithCapacity: the lists of team ids the query may
\* return; it has no ORDER BY, so every order of the matching teams is a
\* possible result.  instanceId = Null stands for an omitted argument.
findTeamsWithCapacity(ts, us, cc, instanceId) ==
    LET matching ==
            {t \in DOMAIN ts :
                /\ ts[t].status = "active"
                /\ \E m \in Range(ts[t].members) :
                      /\ us[m].status = "active"
                      /\ cc[m] < us[m].maxConcurrentChats
                /\ instanceId # Null => instanceId \in ts[t].whatsappInstances}
        n == Cardinality(matching)
    IN  {res \in [1..n -> matching] : NoDuplicates(res)}

\* TeamRepository.findBestTeamForAssignment: the loop over the teams found,
\* returning <<bestTeam, bestCapacity>>
RECURSIVE bestTeamLoop(_, _, _, _, _, _)
bestTeamLoop(ts, us, cc, found, bestTeam, bestCapacity) ==
    IF found = <<>> THEN <<bestTeam, bestCapacity>>
    ELSE LET team == Head(found)
             capacity == getTeamCapacity(us, cc, ts[team].members)
         IN  IF capacity.availableCapacity > bestCapacity
             THEN bestTeamLoop(ts, us, cc, Tail(found), team, capacity.availableCapacity)
             ELSE bestTeamLoop(ts, us, cc, Tail(found), bestTeam, bestCapacity)

\* TeamRepository.findBestTeamForAssignment: the teams it may return (Null
\* for none), one for every order findTeamsWithCapacity may answer in
findBestTeamForAssignment(ts, us, cc, instanceId) ==
    {IF Len(found) = 0 THEN Null
     ELSE LET best == bestTeamLoop(ts, us, cc, found, found[1], 0)
          IN  IF best[2] > 0 THEN best[1] ELSE Null :
        found \in findTeamsWithCapacity(ts, us, cc, instanceId)}

\* manager.find(User, { where: userIds.map(id => ({ id })) }): the existing
\* users among userIds, each once, here by ascending id
findUsers(us, userIds) ==
    LET found == userIds \cap DOMAIN us
    IN  CHOOSE s \in [1..Cardinality(found) -> found] :
            \A i, j \in DOMAIN s : i < j => s[i] < s[j]

\* a faulty addMembers: the users found are appended as they come
addMembersData_noFilter(us, members, userIds) ==
    members \o findUsers(us, userIds)

\* TeamRepository.addMembers: the member list it saves
addMembersData(us, members, userIds) ==
    LET newMembers == SelectSeq(findUsers(us, userIds),
                                LAMBDA user : user \notin Range(members))
    IN  members \o newMembers

\* TeamRepository.removeMembers: the member list it saves
removeMembersData(members, userIds) ==
    SelectSeq(members, LAMBDA member : member \notin userIds)

\* TeamRepository.setMembers: the member list it saves
setMembersData(us, userIds) == findUsers(us, userIds)

\* the userIds callers pass: non-empty, with or without the id of no user
UserIdInputs == (SUBSET (1..(NUsers + 1))) \ {{}}

\* TeamRepository.addMembers
addMembers(teamId, userIds) ==
    /\ teamId \in Teams
    /\ teams' = [teams EXCEPT ![teamId].members =
                    addMembersData(users, teams[teamId].members, userIds)]
    /\ UNCHANGED <<rows, now, chatCount, pc, local, users, picks>>

\* TeamRepository.removeMembers
removeMembers(teamId, userIds) ==
    /\ teamId \in Teams
    /\ teams' = [teams EXCEPT ![teamId].members =
                    removeMembersData(teams[teamId].members, userIds)]
    /\ UNCHANGED <<rows, now, chatCount, pc, local, users, picks>>

\* TeamRepository.setMembers
setMembers(teamId, userIds) ==
    /\ teamId \in Teams
    /\ teams' = [teams EXCEPT ![teamId].members = setMembersData(users, userIds)]
    /\ UNCHANGED <<rows, now, chatCount, pc, local, users, picks>>

\* the user rows of SpecTeams: agents with the same chat limit
TeamUserInputs ==
    [ role               : {"agent"},
      status             : {"active", "inactive"},
      availability       : {"available", "offline"},
      maxConcurrentChats : {MaxChats},
      whatsappInstances  : {{}},
      lastActivityAt     : {Null} ]

\* the team rows TeamRepository.create is given in SpecTeams
TeamInputs ==
    [ status            : {"active", "inactive"},
      whatsappInstances : {{}, {1}},
      members           : {<<>>} ]

InitTeams ==
    /\ rows = <<>>
    /\ now = 0
    /\ chatCount = [u \in Users |-> 0]
    /\ pc = [p \in Handlers |-> "idle"]
    /\ local = [p \in Handlers |-> <<>>]
    /\ users \in [Users -> TeamUserInputs]
    /\ teams \in [Teams -> TeamInputs]
    /\ picks = [t \in Teams |-> <<>>]

NextTeams ==
    \/ \E t \in Teams, userIds \in UserIdInputs : addMembers(t, userIds)
    \/ \E t \in Teams, userIds \in UserIdInputs : removeMembers(t, userIds)
    \/ \E t \in Teams, userIds \in UserIdInputs : setMembers(t, userIds)
    \/ \E id \in Users : updateChatCount(id, 1)

SpecTeams == InitTeams /\ [][NextTeams]_vars

\* ------------------------------------------------------ SpecRoundRobin
\* Routing within teams with method round_robin: one agent after the other
\* is taken from getNextAgentByMethod and its chat count incremented.

\* one selection: the team is loaded, getNextAgentByMethod names the agent
\* and updateChatCount(agent, 1) counts the new chat
selectNextAgent(teamId, method) ==
    \E members \in loadMembers(teams[teamId]) :
        \E agent \in getNextAgentByMethod(users, chatCount, members, method) :
            /\ agent # Null
            /\ chatCount' = [chatCount EXCEPT ![agent] = chatCount[agent] + 1]
            /\ users' = [users EXCEPT ![agent].lastActivityAt = now]
            /\ picks' = [picks EXCEPT ![teamId] = Append(picks[teamId], agent)]
            /\ UNCHANGED <<rows, now, pc, local, teams>>

\* the member lists of the teams of SpecRoundRobin
MemberLists ==
    {s \in UNION {[1..n -> Users] : n \in 0..NUsers} : NoDuplicates(s)}

InitRoundRobin ==
    /\ rows = <<>>
    /\ now = 0
    /\ chatCount = [u \in Users |-> 0]
    /\ pc = [p \in Handlers |-> "idle"]
    /\ local = [p \in Handlers |-> <<>>]
    /\ users \in [Users -> TeamUserInputs]
    /\ teams \in [Teams -> [status : {"active"},
                            whatsappInstances : {{}},
                            members : MemberLists]]
    /\ picks = [t \in Teams |-> <<>>]

NextRoundRobin ==
    \E t \in Teams : selectNextAgent(t, "round_robin")

SpecRoundRobin == InitRoundRobin /\ [][NextRoundRobin]_vars

\* ----------------------------------------------------------- SpecStats
\* The ledger read by getStatistics: rows of several agents and instances
\* that are answered, completed with or without a rating, or abandoned.

\* Math.round(100 * sum / n): the mean of n values in hundredths, rounded
\* half up as Math.round does
roundedMean(sum, n) == (200 * sum + n) \div (2 * n)

\* a faulty filter: a null metric is kept and counts as zero
validValues_nullAsZero(completedAssignments, metric) ==
    [k \in DOMAIN completedAssignments |->
        IF completedAssignments[k][metric] = Null THEN 0
        ELSE completedAssignments[k][metric]]

\* getStatistics: completedAssignments.filter(a => a.metric !== null)
\*                                    .map(a => a.metric)
validValues(completedAssignments, metric) ==
    LET valid == SelectSeq(completedAssignments, LAMBDA a : a[metric] # Null)
    IN  [k \in DOMAIN valid |-> valid[k][metric]]

\* getStatistics: one average, in hundredths; 0 when no value is valid
average(completedAssignments, metric) ==
    LET values == validValues(completedAssignments, metric)
    IN  IF Len(values) > 0 THEN roundedMean(reduceSum(values), Len(values)) ELSE 0

\* ConversationAssignmentRepository.getStatistics; userId, instanceId = Null
\* stand for omitted arguments, the averages are in hundredths
getStatistics(rs, userId, instanceId) ==
    LET where(a) == /\ userId # Null => a.userId = userId
                    /\ instanceId # Null => a.whatsappInstanceId = instanceId
        count(status) == Len(SelectSeq(rs, LAMBDA a : where(a) /\ a.status = status))
        completedAssignments ==
            SelectSeq(rs, LAMBDA a : where(a) /\ a.status = COMPLETED)
    IN  [ total       |-> Len(SelectSeq(rs, where)),
          active      |-> count(ACTIVE),
          completed   |-> count(COMPLETED),
          transferred |-> count(TRANSFERRED),
          escalated   |-> count(ESCALATED),
          abandoned   |-> count(ABANDONED),
          averageResponseTime   |-> average(completedAssignments, "responseTimeMinutes"),
          averageResolutionTime |-> average(completedAssignments, "resolutionTimeMinutes"),
          averageRating         |-> average(completedAssignments, "customerRating") ]

\* what callers pass to create() in SpecStats
CreateInputsStats ==
    [conversationId : {1}, userId : Users, whatsappInstanceId : Instances]

\* ConversationAssignmentRepository.create, up to MaxRowsStats rows
createStats(assignmentData) ==
    /\ Len(rows) < MaxRowsStats
    /\ rows' = Append(rows, createRow(assignmentData, now))
    /\ UNCHANGED <<now, chatCount, pc, local, users, teams, picks>>

NextStats ==
    \/ \E d \in CreateInputsStats : createStats(d)
    \/ \E id \in 1..MaxRowsStats, rt \in ResponseTimes : recordResponse(id, rt)
    \/ \E id \in 1..MaxRowsStats, r \in Ratings : complete(id, r)
    \/ \E id \in 1..MaxRowsStats : abandon(id)

SpecStats == Init /\ [][NextStats]_vars

\* ------------------------------------------------------- SpecResponses
\* Several recordResponse calls at once, under a running clock.
\* recordResponse loads the row (await findById), builds its updateData from
\* the loaded row, then writes (await repository.update): other handlers
\* run between the two awaits.

\* what callers pass to create() in SpecResponses
CreateInputsResponses ==
    [conversationId : {1}, userId : {1}]

\* recordResponse, up to its first await: const assignment = await
\* this.findById(id); the guard keeps the counter within the model's range
recordResponse_findById(p, id, responseTime) ==
    /\ pc[p] = "idle"
    /\ id \in DOMAIN rows
    /\ rows[id].responseCount < MaxResponsesConc
    /\ pc' = [pc EXCEPT ![p] = "recordResponse_update"]
    /\ local' = [local EXCEPT ![p] =
                    [id |-> id, arg |-> responseTime, assignment |-> rows[id]]]
    /\ UNCHANGED <<rows, now, chatCount, users, teams, picks>>

\* recordResponse, its second await: await this.repository.update(id,
\* updateData), updateData coming from the row as it was loaded
recordResponse_update(p) ==
    /\ pc[p] = "recordResponse_update"
    /\ rows' = repositoryUpdate(rows, local[p].id,
                    recordResponseData(local[p].assignment, local[p].arg, now))
    /\ pc' = [pc EXCEPT ![p] = "idle"]
    /\ local' = [local EXCEPT ![p] = <<>>]
    /\ UNCHANGED <<now, chatCount, users, teams, picks>>

NextResponses ==
    \/ \E d \in CreateInputsResponses : create(d)
    \/ \E p \in Handlers, id \in 1..MaxRows, rt \in ResponseTimes :
          recordResponse_findById(p, id, rt)
    \/ \E p \in Handlers : recordResponse_update(p)
    \/ Tick

SpecResponses == Init /\ [][NextResponses]_vars

\* -------------------------------------------------------- SpecActivity
\* The users table under a running clock: agents set their availability and
\* take chats at different times, and findLeastBusyAgent reads the table.

\* a faulty ORDER BY: lastActivityAt ascending
leastBusyFirst_oldestActivity(us, cc, u, v) ==
    \/ cc[u] < cc[v]
    \/ cc[u] = cc[v] /\ us[u].lastActivityAt <= us[v].lastActivityAt

\* UserRepository.findLeastBusyAgent: ORDER BY currentChatCount ASC,
\* lastActivityAt DESC puts row u before row v, or leaves their order open
leastBusyFirst(us, cc, u, v) ==
    \/ cc[u] < cc[v]
    \/ cc[u] = cc[v] /\ us[u].lastActivityAt >= us[v].lastActivityAt

\* UserRepository.findLeastBusyAgent: the users getOne() may return (Null
\* for none): the rows the ordering puts first.  instanceId = Null stands
\* for an omitted argument.
findLeastBusyAgent(us, cc, instanceId) ==
    LET matching ==
            {u \in DOMAIN us :
                /\ us[u].status = "active"
                /\ us[u].availability = "available"
                /\ cc[u] < us[u].maxConcurrentChats
                /\ instanceId # Null => instanceId \in us[u].whatsappInstances}
    IN  IF matching = {} THEN {Null}
        ELSE {u \in matching : \A v \in matching : leastBusyFirst(us, cc, u, v)}

\* the user rows of SpecActivity
ActivityUserInputs ==
    [ role               : {"agent"},
      status             : {"active", "inactive"},
      availability       : {"offline"},
      maxConcurrentChats : {MaxChats},
      whatsappInstances  : {{}, {1}},
      lastActivityAt     : {Null} ]

InitActivity ==
    /\ rows = <<>>
    /\ now = 0
    /\ chatCount = [u \in Users |-> 0]
    /\ pc = [p \in Handlers |-> "idle"]
    /\ local = [p \in Handlers |-> <<>>]
    /\ users \in [Users -> ActivityUserInputs]
    /\ teams = [t \in Teams |-> TeamDefaults]
    /\ picks = [t \in Teams |-> <<>>]

NextActivity ==
    \/ \E id \in Users : updateChatCount(id, 1)
    \/ \E id \in Users, a \in AvailabilityInputs : updateAvailability(id, a)
    \/ Tick

SpecActivity == InitActivity /\ [][NextActivity]_vars

\* -------------------------------------------------------- SpecChatConc
\* Several updateChatCount calls at once, one per request handler.  The call
\* has two awaits: the UPDATE statement, which the database executes as one
\* step, and the findById that reads the row back.

\* updateChatCount, its first await: the UPDATE ... SET currentChatCount =
\* currentChatCount + increment
updateChatCount_execute(p, id, increment) ==
    /\ pc[p] = "idle"
    /\ id \in Users
    /\ chatCount[id] + increment \in (0 - MaxCount)..MaxCount
    /\ chatCount' = [chatCount EXCEPT ![id] = incrementedCount(chatCount[id], increment)]
    /\ users' = [users EXCEPT ![id].lastActivityAt = now]
    /\ pc' = [pc EXCEPT ![p] = "updateChatCount_findById"]
    /\ local' = [local EXCEPT ![p] = [id |-> id, arg |-> increment]]
    /\ UNCHANGED <<rows, now, teams, picks>>

\* updateChatCount, its second await: return await this.findById(id); the
\* handler keeps what it was called with and what it returned
updateChatCount_findById(p) ==
    /\ pc[p] = "updateChatCount_findById"
    /\ pc' = [pc EXCEPT ![p] = "returned"]
    /\ local' = [local EXCEPT ![p] = [id |-> local[p].id, arg |-> local[p].arg,
                                      result |-> chatCount[local[p].id]]]
    /\ UNCHANGED <<rows, now, chatCount, users, teams, picks>>

NextChatConc ==
    \/ \E p \in Handlers, id \in Users, increment \in Increments :
          updateChatCount_execute(p, id, increment)
    \/ \E p \in Handlers : updateChatCount_findById(p)

SpecChatConc == InitTeams /\ [][NextChatConc]_vars

\* -------------------------------------------------------- SpecSnapshot
\* The ledger with rows that carry a contact snapshot, a category and tags:
\* rows are created for any instance and priority, answered and
\* transferred.

\* what callers pass to create() in SpecSnapshot; 1 stands for a contact
\* name, phone, type, a category, a subcategory or a tag list, Null for
\* none
CreateInputsSnapshot ==
    [ conversationId     : {1},
      whatsappInstanceId : Instances,
      userId             : {1},
      priority           : {LOW, URGENT},
      contactName        : {Null, 1},
      contactPhone       : {1},
      contactType        : {Null, 1},
      category           : {Null, 1},
      subcategory        : {1},
      tags               : {Null, 1} ]

NextSnapshot ==
    \/ \E d \in CreateInputsSnapshot : create(d)
    \/ \E id \in 1..MaxRows, rt \in ResponseTimes : recordResponse(id, rt)
    \/ \E id \in 1..MaxRows, u \in Users : transfer(id, u)

SpecSnapshot == Init /\ [][NextSnapshot]_vars

\* ----------------------------------------------------------------------
\* Properties
\* ----------------------------------------------------------------------
ActiveOwnedBy(u) ==
    {i \in DOMAIN rows : rows[i].status = ACTIVE /\ rows[i].userId = u}

AllIdle == \A p \in Handlers : pc[p] = "idle"

\* C1 (Spec): for every conversationId at most one row has status Active,
\* in every reachable state.
C1_SingleActive ==
    \A c \in Conversations : Cardinality(findActiveByConversationId(rows, c)) <= 1

\* C2 (Spec): after any sequence of ledger operations every agent's
\* currentChatCount equals the number of Active rows the agent owns.
C2_CapacityConservation ==
    \A u \in Users : chatCount[u] = Cardinality(ActiveOwnedBy(u))

\* C3 (Spec): complete, transfer, escalate or abandon called on a row whose
\* status is not Active changes nothing: the row stays as it is and no
\* successor row is created.
C3_NonActiveRejected ==
    [][\A id \in DOMAIN rows :
          ( /\ rows[id].status # ACTIVE
            /\ \/ complete(id, Null)
               \/ \E u \in Users : transfer(id, u)
               \/ \E u \in Users : escalate(id, u)
               \/ abandon(id) )
          => rows' = rows]_vars

\* C4 (Spec): a transfer of an Active row owned by O to X leaves the old row
\* Transferred with transferredTo = X and completedAt set, adds exactly one
\* row, and that row has the same conversationId, status Active,
\* transferredFrom = O, assignmentType transfer and owner X; no other row
\* changes.
C4_TransferLinkage ==
    [][\A id \in DOMAIN rows, x \in Users :
          (rows[id].status = ACTIVE /\ transfer(id, x))
          => /\ rows'[id].status = TRANSFERRED
             /\ rows'[id].transferredTo = x
             /\ rows'[id].completedAt # Null
             /\ Len(rows') = Len(rows) + 1
             /\ rows'[Len(rows')].conversationId = rows[id].conversationId
             /\ rows'[Len(rows')].status = ACTIVE
             /\ rows'[Len(rows')].transferredFrom = rows[id].userId
             /\ rows'[Len(rows')].assignmentType = "transfer"
             /\ rows'[Len(rows')].userId = x
             /\ \A j \in DOMAIN rows \ {id} : rows'[j] = rows[j]]_vars

\* C4 witness: a row closed by a transfer to another agent, and its Active
\* successor owned by that agent.
C4_Witness ==
    \E i, j \in DOMAIN rows :
        /\ i < j
        /\ rows[i].status = TRANSFERRED
        /\ rows[i].transferredTo # rows[i].userId
        /\ rows[i].completedAt # Null
        /\ rows[j].status = ACTIVE
        /\ rows[j].assignmentType = "transfer"
        /\ rows[j].transferredFrom = rows[i].userId
        /\ rows[j].userId = rows[i].transferredTo
        /\ rows[j].conversationId = rows[i].conversationId

\* C5 (SpecConc): whenever no transfer or escalate is under way, every row
\* with status Transferred or Escalated has a successor row for the same
\* conversation, and every successor row has a closed predecessor.
C5_AllOrNothing ==
    AllIdle =>
        /\ \A i \in DOMAIN rows :
              rows[i].status \in {TRANSFERRED, ESCALATED}
              => \E j \in DOMAIN rows :
                    /\ j > i
                    /\ rows[j].conversationId = rows[i].conversationId
                    /\ rows[j].assignmentType \in {"transfer", "escalation"}
                    /\ rows[j].userId = rows[i].transferredTo
        /\ \A j \in DOMAIN rows :
              rows[j].assignmentType \in {"transfer", "escalation"}
              => \E i \in DOMAIN rows :
                    /\ i < j
                    /\ rows[i].conversationId = rows[j].conversationId
                    /\ rows[i].status # ACTIVE

\* C6 (Spec): an escalate of an Active row closes it with status Escalated
\* and adds one successor row whose priority is High, whatever the
\* predecessor's priority, with assignmentType escalation.
C6_EscalatePriority ==
    [][\A id \in DOMAIN rows, x \in Users :
          (rows[id].status = ACTIVE /\ escalate(id, x))
          => /\ rows'[id].status = ESCALATED
             /\ Len(rows') = Len(rows) + 1
             /\ rows'[Len(rows')].priority = HIGH
             /\ rows'[Len(rows')].assignmentType = "escalation"
             /\ rows'[Len(rows')].conversationId = rows[id].conversationId]_vars

\* C6 witness: an escalated row that was not High, with its High successor.
C6_Witness ==
    \E i, j \in DOMAIN rows :
        /\ i < j
        /\ rows[i].status = ESCALATED
        /\ rows[i].priority = LOW
        /\ rows[j].assignmentType = "escalation"
        /\ rows[j].priority = HIGH
        /\ rows[j].conversationId = rows[i].conversationId

\* C7 (Spec): create for a conversationId that already has an Active row is
\* rejected: no row is added and no row changes.
C7_DuplicateRejected ==
    [][\A d \in CreateInputs :
          (findActiveByConversationId(rows, d.conversationId) # {} /\ create(d))
          => rows' = rows]_vars

\* C8 (Spec): once a row's status is not Active, no operation changes that
\* row's status again.
C8_ForwardOnly ==
    [][\A i \in DOMAIN rows :
          rows[i].status # ACTIVE => rows'[i].status = rows[i].status]_vars

\* C9 (SpecConc): of the terminal transitions running concurrently on one
\* Active row only the first to write succeeds: a handler that loaded the
\* row as Active and finds it no longer Active when it writes changes no
\* row.
C9_LoserRejected ==
    [][\A p \in Handlers :
          ( /\ pc[p] \in {"complete_update", "transfer_update", "escalate_update"}
            /\ local[p].assignment.status = ACTIVE
            /\ rows[local[p].id].status # ACTIVE
            /\ pc'[p] # pc[p] )
          => rows' = rows]_vars

\* C10 (SpecTime): findOverdue(timeoutMinutes) returns exactly the rows with
\* status Active, firstResponseAt null and assignedAt earlier than now minus
\* timeoutMinutes, each once and no others, oldest assignedAt first.
C10_OverdueExact ==
    \A tm \in Timeouts :
        /\ findOverdueAssignments(rows, now, tm) # {}
        /\ \A res \in findOverdueAssignments(rows, now, tm) :
              /\ \A i \in DOMAIN rows :
                    (\E k \in DOMAIN res : res[k] = i)
                    <=> ( /\ rows[i].status = ACTIVE
                          /\ rows[i].firstResponseAt = Null
                          /\ rows[i].assignedAt + tm < now )
              /\ \A k, l \in DOMAIN res :
                    k < l => /\ res[k] # res[l]
                             /\ rows[res[k]].assignedAt <= rows[res[l]].assignedAt

\* C10 witness: two overdue rows of different age are returned oldest
\* first, a larger timeout returns only the older one, and a timeout that
\* no row has outlived returns the empty list.
C10_Witness ==
    /\ \E res \in findOverdueAssignments(rows, now, 0) :
          /\ Len(res) = 2
          /\ rows[res[1]].assignedAt < rows[res[2]].assignedAt
    /\ \E res \in findOverdueAssignments(rows, now, 1) : Len(res) = 1
    /\ findOverdueAssignments(rows, now, 2) = {<<>>}
\* C11 (SpecTime): a row on which recordResponse has been called, with or
\* without a response-time sample, appears in no findOverdue result from
\* then on, whatever the timeout.  In SpecTime responseCount > 0 exactly on
\* the rows recordResponse has been called on.
C11_AnsweredNeverOverdue ==
    \A i \in DOMAIN rows :
        rows[i].responseCount > 0 =>
            \A tm \in Timeouts :
                \A res \in findOverdueAssignments(rows, now, tm) :
                    \A k \in DOMAIN res : res[k] # i

\* an Active row that was overdue before its first response and, but for
\* that response, would be overdue now
C11_Witness ==
    \E i \in DOMAIN rows :
        /\ rows[i].status = ACTIVE
        /\ rows[i].responseCount > 0
        /\ rows[i].firstResponseAt > rows[i].assignedAt
        /\ isOverdue_ignoresResponse(rows[i], now, 0)
        /\ ~ isOverdue(rows[i], now, 0)

\* the number of times agent u appears in a list of selections
Occurrences(s, u) == Cardinality({i \in DOMAIN s : s[i] = u})

\* the members of team t that were available before its selections began,
\* when only team t has selected
AvailableAtStart(t) ==
    {m \in Range(teams[t].members) :
        isAvailable(users[m], chatCount[m] - Occurrences(picks[t], m))}

\* C12 (SpecRoundRobin): given a team with N available agents and N
\* sequential selections with method round_robin, each followed by the
\* increment of the chosen agent's chat count, each agent is selected
\* exactly once: among the first N selections no agent appears twice.
C12_RoundRobinEachOnce ==
    \A t \in Teams :
        ( /\ \A o \in Teams \ {t} : picks[o] = <<>>
          /\ Len(picks[t]) <= Cardinality(AvailableAtStart(t)) )
        => NoDuplicates(picks[t])

\* C13 (SpecTeams): with method least_busy the agent selected within a
\* team is an available member whose currentChatCount is the least among
\* the available members, never a member at capacity, and no agent is
\* selected only when no member is available.
C13_LeastBusy ==
    \A t \in Teams :
        \A members \in loadMembers(teams[t]) :
            \A agent \in getNextAgentByMethod(users, chatCount, members, "least_busy") :
                LET available == {m \in Range(teams[t].members) :
                                     isAvailable(users[m], chatCount[m])}
                IN  IF available = {} THEN agent = Null
                    ELSE /\ agent \in available
                         /\ \A m \in available : chatCount[agent] <= chatCount[m]
                         /\ chatCount[agent] # users[agent].maxConcurrentChats

\* a team with A at 0 of 2 and B at 2 of 2, both active and set available:
\* the selection is A in whatever order the members load
C13_Witness ==
    \E t \in Teams, A, B \in Users :
        /\ A # B
        /\ Range(teams[t].members) = {A, B}
        /\ users[A].status = "active" /\ users[A].availability = "available"
        /\ users[B].status = "active" /\ users[B].availability = "available"
        /\ users[A].maxConcurrentChats = 2 /\ chatCount[A] = 0
        /\ users[B].maxConcurrentChats = 2 /\ chatCount[B] = 2
        /\ \A members \in loadMembers(teams[t]) :
              getNextAgentByMethod(users, chatCount, members, "least_busy") = {A}

\* C14 (SpecAgents): updateChatCount never drives an agent's
\* currentChatCount below 0: whatever the starting count and the sequence of
\* positive and negative increments, the stored count is at least 0.
C14_CountNeverNegative ==
    \A u \in Users : chatCount[u] >= 0

\* C15 (SpecAgents): the available agents for an instance are exactly the
\* users with status active, availability available and currentChatCount
\* below maxConcurrentChats whose instance list holds the instance or whose
\* role is admin, and without an instance they are exactly the users
\* meeting the first three conditions.
C15_FindAvailableExact ==
    /\ findAvailableAgents(users, chatCount) =
          {u \in Users : isAvailable(users[u], chatCount[u])}
    /\ \A instanceId \in Instances :
          findAvailableByInstance(users, chatCount, instanceId) =
             {u \in Users : /\ isAvailable(users[u], chatCount[u])
                            /\ \/ instanceId \in users[u].whatsappInstances
                               \/ users[u].role = "admin"}

\* the team's members with status active, in member order
activeMembers(t) ==
    SelectSeq(teams[t].members, LAMBDA m : users[m].status = "active")

\* C16 (SpecTeams): the capacity of a team has total = the sum of
\* maxConcurrentChats over the team's active members, used = the sum of
\* their currentChatCount, and available = total - used floored at 0, so
\* available is never negative.
C16_CapacityOverActive ==
    \A t \in Teams :
        LET capacity == getTeamCapacity(users, chatCount, teams[t].members)
            total == reduceSum([i \in DOMAIN activeMembers(t) |->
                                  users[activeMembers(t)[i]].maxConcurrentChats])
            used == reduceSum([i \in DOMAIN activeMembers(t) |->
                                  chatCount[activeMembers(t)[i]]])
        IN  /\ capacity.totalCapacity = total
            /\ capacity.usedCapacity = used
            /\ capacity.availableCapacity = IF total - used > 0 THEN total - used ELSE 0
            /\ capacity.availableCapacity >= 0

\* the active teams serving instanceId that have a member with spare
\* capacity
Candidates(instanceId) ==
    {t \in Teams :
        /\ teams[t].status = "active"
        /\ instanceId \in teams[t].whatsappInstances
        /\ \E m \in Range(teams[t].members) :
              /\ users[m].status = "active"
              /\ chatCount[m] < users[m].maxConcurrentChats}

\* the available capacity the repository reports for team t
availableOf(t) ==
    getTeamCapacity(users, chatCount, teams[t].members).availableCapacity

\* C17 (SpecTeams): the best team for an instance is, among the active
\* teams serving the instance that have a member with spare capacity, the
\* one with the highest available capacity, the lowest team id among equals,
\* and none only when there is no such team.
C17_BestTeam ==
    \A instanceId \in Instances :
        \A best \in findBestTeamForAssignment(teams, users, chatCount, instanceId) :
            IF Candidates(instanceId) = {} THEN best = Null
            ELSE /\ best \in Candidates(instanceId)
                 /\ \A t \in Candidates(instanceId) :
                       \/ availableOf(t) < availableOf(best)
                       \/ availableOf(t) = availableOf(best) /\ best <= t

\* C18 (SpecTeams): addMembers, removeMembers and setMembers are
\* idempotent: applied to its own result each gives that result again;
\* adding members that are all present leaves the list as it is; and no
\* member list, stored or produced, holds a member twice.
C18_MembershipIdempotent ==
    \A t \in Teams, userIds \in UserIdInputs :
        LET members == teams[t].members
            added == addMembersData(users, members, userIds)
            removed == removeMembersData(members, userIds)
            set == setMembersData(users, userIds)
        IN  /\ NoDuplicates(members)
            /\ NoDuplicates(added) /\ NoDuplicates(removed) /\ NoDuplicates(set)
            /\ addMembersData(users, added, userIds) = added
            /\ removeMembersData(removed, userIds) = removed
            /\ Range(setMembersData(users, userIds)) = Range(set)
            /\ Range(added) = Range(members) \cup (userIds \cap Users)
            /\ Range(removed) = Range(members) \ userIds
            /\ Range(set) = userIds \cap Users
            /\ userIds \subseteq Range(members) => added = members

\* a team that has been given two members, where adding one of them again
\* changes nothing
C18_Witness ==
    \E t \in Teams :
        /\ Len(teams[t].members) = 2
        /\ addMembersData(users, teams[t].members, {teams[t].members[1]})
              = teams[t].members

\* the rows a getStatistics call with these arguments is about
Matching(userId, instanceId) ==
    {i \in DOMAIN rows :
        /\ userId # Null => rows[i].userId = userId
        /\ instanceId # Null => rows[i].whatsappInstanceId = instanceId}

\* the sum of a metric over a set of rows
RECURSIVE SumMetric(_, _)
SumMetric(S, metric) ==
    IF S = {} THEN 0
    ELSE LET i == CHOOSE x \in S : TRUE
         IN  rows[i][metric] + SumMetric(S \ {i}, metric)

\* avg is the mean of the metric over the Completed rows of S whose metric
\* is not null, to the nearest hundredth, and 0 when there is no such row
IsMeanOverCompleted(avg, S, metric) ==
    LET valid == {i \in S : rows[i].status = COMPLETED /\ rows[i][metric] # Null}
        n == Cardinality(valid)
        d == avg * n - 100 * SumMetric(valid, metric)
    IN  IF n = 0 THEN avg = 0
        ELSE 2 * d <= n /\ 0 - n < 2 * d

\* C19 (SpecStats): getStatistics(userId?, instanceId?) counts the matching
\* rows by status and gives, as mean response time, mean resolution time
\* and mean customer rating, the mean (to the hundredth) over the matching
\* Completed rows whose metric is not null: a null metric is left out of
\* its average and not counted as zero.
C19_Statistics ==
    \A userId \in Users \cup {Null}, instanceId \in Instances \cup {Null} :
        LET stats == getStatistics(rows, userId, instanceId)
            S == Matching(userId, instanceId)
            with(status) == Cardinality({i \in S : rows[i].status = status})
        IN  /\ stats.total = Cardinality(S)
            /\ stats.active = with(ACTIVE)
            /\ stats.completed = with(COMPLETED)
            /\ stats.transferred = with(TRANSFERRED)
            /\ stats.escalated = with(ESCALATED)
            /\ stats.abandoned = with(ABANDONED)
            /\ IsMeanOverCompleted(stats.averageResponseTime, S, "responseTimeMinutes")
            /\ IsMeanOverCompleted(stats.averageResolutionTime, S, "resolutionTimeMinutes")
            /\ IsMeanOverCompleted(stats.averageRating, S, "customerRating")

\* two Completed rows, one rated 4 and one unrated, and an unfinished row
\* with a response time of another agent: the mean rating is 4.00, not
\* 2.00, the unfinished row's response time is in no mean, and the
\* statistics of one agent leave the other agent's rows out
C19_Witness ==
    \E i, j, k \in DOMAIN rows :
        /\ rows[i].status = COMPLETED /\ rows[i].customerRating = 4
        /\ rows[j].status = COMPLETED /\ rows[j].customerRating = Null
        /\ rows[i].userId = rows[j].userId
        /\ rows[i].responseTimeMinutes = Null /\ rows[j].responseTimeMinutes = Null
        /\ rows[k].status = ABANDONED /\ rows[k].responseTimeMinutes = 2
        /\ rows[k].userId # rows[i].userId
        /\ getStatistics(rows, Null, Null).averageRating = 400
        /\ getStatistics(rows, Null, Null).averageResponseTime = 0
        /\ getStatistics(rows, Null, Null).total = 3
        /\ getStatistics(rows, rows[i].userId, Null).total = 2

\* C20 (SpecTime): recordResponse called on a row that is not Active
\* leaves the row's responseCount, firstResponseAt, lastResponseAt and
\* responseTimeMinutes unchanged.
C20_ResponseOnActiveOnly ==
    [][\A id \in DOMAIN rows, responseTime \in ResponseTimes :
          ( /\ rows[id].status # ACTIVE
            /\ recordResponse(id, responseTime) )
          => /\ rows'[id].responseCount = rows[id].responseCount
             /\ rows'[id].firstResponseAt = rows[id].firstResponseAt
             /\ rows'[id].lastResponseAt = rows[id].lastResponseAt
             /\ rows'[id].responseTimeMinutes = rows[id].responseTimeMinutes]_vars

\* C21 (SpecTime): on the first recordResponse of a row (firstResponseAt
\* unset) without a sample, firstResponseAt becomes now and
\* responseTimeMinutes the minutes elapsed from assignedAt to now.
C21_FirstResponseTime ==
    [][\A id \in DOMAIN rows :
          ( /\ rows[id].firstResponseAt = Null
            /\ recordResponse(id, Null) )
          => /\ rows'[id].firstResponseAt = now
             /\ rows'[id].responseTimeMinutes = now - rows[id].assignedAt]_vars

\* C22 (SpecResponses): when recordResponse is called with a sample on a
\* row whose firstResponseAt is set, and no other call comes between its
\* load and its write, the new responseTimeMinutes is (previous
\* responseTimeMinutes + sample) / 2 whatever the previous value, 0
\* included.
C22_RunningAverage ==
    [][\A p \in Handlers :
          ( /\ pc[p] = "recordResponse_update"
            /\ recordResponse_update(p)
            /\ local[p].assignment = rows[local[p].id]
            /\ rows[local[p].id].firstResponseAt # Null
            /\ local[p].arg # Null )
          => rows'[local[p].id].responseTimeMinutes =
                (rows[local[p].id].responseTimeMinutes + local[p].arg) \div 2]_vars

\* C23 (SpecTime): complete on an Active row stores status Completed,
\* completedAt = now and resolutionTimeMinutes = the minutes between
\* assignedAt and that completedAt.
C23_ResolutionTime ==
    [][\A id \in DOMAIN rows, rating \in Ratings :
          ( /\ rows[id].status = ACTIVE
            /\ complete(id, rating) )
          => /\ rows'[id].status = COMPLETED
             /\ rows'[id].completedAt = now
             /\ rows'[id].resolutionTimeMinutes =
                   rows'[id].completedAt - rows'[id].assignedAt]_vars

\* C24 (SpecTime): on every row assignedAt never changes, and
\* firstResponseAt and completedAt, once set, are not changed by a later
\* call.
C24_TimestampsSetOnce ==
    [][\A i \in DOMAIN rows :
          /\ rows'[i].assignedAt = rows[i].assignedAt
          /\ rows[i].firstResponseAt # Null =>
                rows'[i].firstResponseAt = rows[i].firstResponseAt
          /\ rows[i].completedAt # Null =>
                rows'[i].completedAt = rows[i].completedAt]_vars

\* the agents findAvailable returns for instanceId (Null: no instance)
Eligible(instanceId) ==
    IF instanceId = Null THEN findAvailableAgents(users, chatCount)
    ELSE findAvailableByInstance(users, chatCount, instanceId)

\* C25 (SpecActivity): findLeastBusyAgent(instanceId) returns none exactly
\* when findAvailable for the same instanceId is empty, and otherwise one of
\* the agents findAvailable returns, none of which has a smaller
\* currentChatCount, or the same currentChatCount and a more recent
\* lastActivityAt.
C25_LeastBusy ==
    \A instanceId \in Instances \cup {Null} :
        \A agent \in findLeastBusyAgent(users, chatCount, instanceId) :
            IF Eligible(instanceId) = {} THEN agent = Null
            ELSE /\ agent \in Eligible(instanceId)
                 /\ \A e \in Eligible(instanceId) :
                       /\ chatCount[e] >= chatCount[agent]
                       /\ chatCount[e] = chatCount[agent] =>
                             users[e].lastActivityAt <= users[agent].lastActivityAt

\* two available agents with the same chat count, A active more recently
\* than B: A is the one returned; and for an instance in nobody's list none
\* is
C25_Witness ==
    \E A, B \in Users :
        /\ {A, B} \subseteq findAvailableAgents(users, chatCount)
        /\ chatCount[A] = chatCount[B]
        /\ users[A].lastActivityAt > users[B].lastActivityAt
        /\ findLeastBusyAgent(users, chatCount, Null) = {A}
        /\ findLeastBusyAgent(users, chatCount, 2) = {Null}

\* the sum of the increments of the calls of the handlers in S on agent u
RECURSIVE SumIncrements(_, _)
SumIncrements(S, u) ==
    IF S = {} THEN 0
    ELSE LET p == CHOOSE x \in S : TRUE
         IN  (IF local[p].id = u THEN local[p].arg ELSE 0) + SumIncrements(S \ {p}, u)

\* C26 (SpecChatConc): however the updateChatCount calls of several
\* handlers on one agent interleave, no update is lost: the agent's
\* currentChatCount is its initial count, 0, plus the sum of the increments
\* of all calls whose UPDATE has run.
C26_NoLostUpdate ==
    \A u \in Users :
        chatCount[u] = SumIncrements({p \in Handlers : pc[p] # "idle"}, u)

\* two calls with increment 1 on one agent, the second running its UPDATE
\* between the UPDATE and the read of the first: both return 2
C26_Witness ==
    \E p, q \in Handlers :
        /\ p # q
        /\ pc[p] = "returned" /\ pc[q] = "returned"
        /\ local[p].id = local[q].id
        /\ local[p].arg = 1 /\ local[q].arg = 1
        /\ local[p].result = 2 /\ local[q].result = 2
        /\ chatCount[local[p].id] = 2

\* C27 (SpecResponses): responseCount counts the responses: every
\* recordResponse call on an Active row, whatever runs beside it, makes the
\* row's responseCount grow by exactly one, so that k calls make it grow by
\* k and it never decreases.
C27_ResponseCountMonotonic ==
    [][\A p \in Handlers :
          ( /\ pc[p] = "recordResponse_update"
            /\ recordResponse_update(p)
            /\ rows[local[p].id].status = ACTIVE )
          => rows'[local[p].id].responseCount =
                rows[local[p].id].responseCount + 1]_vars

\* C28 (SpecTeams): for every method name, getNextAgentByMethod returns no
\* agent, as its ordinary result, exactly when the team has no available
\* member, and otherwise a member of the team that is active, set
\* available and has currentChatCount below maxConcurrentChats.
C28_NoneOrAvailable ==
    \A t \in Teams, method \in DistributionMethods :
        \A members \in loadMembers(teams[t]) :
            \A agent \in getNextAgentByMethod(users, chatCount, members, method) :
                LET available == {m \in Range(teams[t].members) :
                                     /\ users[m].status = "active"
                                     /\ users[m].availability = "available"
                                     /\ chatCount[m] < users[m].maxConcurrentChats}
                IN  /\ agent = Null <=> available = {}
                    /\ agent # Null => agent \in available

\* a team of two members of whom only the second loaded is available, which
\* every method returns, and a team whose only member is not available,
\* for which every method returns none
C28_Witness ==
    \E t, o \in Teams, A, B \in Users :
        /\ A # B
        /\ teams[t].members = <<B, A>>
        /\ teams[o].members = <<B>>
        /\ isAvailable(users[A], chatCount[A])
        /\ users[B].status = "active" /\ users[B].availability = "available"
        /\ chatCount[B] = users[B].maxConcurrentChats
        /\ \A method \in DistributionMethods :
              /\ getNextAgentByMethod(users, chatCount, teams[t].members, method) = {A}
              /\ getNextAgentByMethod(users, chatCount, teams[o].members, method) = {Null}

\* C29 (Spec): on an Active row the entity's escalate helper and the
\* repository's escalate close the row identically, and as transfer does
\* apart from the status: status Escalated, transferredTo the receiving
\* agent, completedAt = now, the row's own priority unchanged.
C29_EscalateClosesAlike ==
    \A i \in DOMAIN rows, toUserId \in Users :
        rows[i].status = ACTIVE =>
            LET byRepository == repositoryUpdate(rows, i, escalateData(toUserId, now))[i]
                byEntity == assignment_escalate(rows[i], toUserId)
                byTransfer == repositoryUpdate(rows, i, transferData(toUserId, now))[i]
            IN  /\ byEntity = byRepository
                /\ byRepository.status = ESCALATED
                /\ byRepository.transferredTo = toUserId
                /\ byRepository.completedAt = now
                /\ byRepository.priority = rows[i].priority
                /\ [byRepository EXCEPT !.status = TRANSFERRED] = byTransfer
                /\ [byEntity EXCEPT !.status = TRANSFERRED] =
                      assignment_transfer(rows[i], toUserId, now)

====
